---- MODULE Spec2Model ----
(***************************************************************************)
(* Weighted comparison of two subpopulations (codes/disjoint_weighted.py): *)
(* cumulative, equiscores, equierrs and ate, called by a driver that keeps *)
(* the lists r, s and weights and a random generator.                      *)
(*                                                                         *)
(* Conventions.                                                            *)
(*  - A list of two arrays (r, s, weights) is a pair <<x0, x1>>; the       *)
(*    Python index j of a subpopulation is the TLA+ index j + 1.  Arrays   *)
(*    are sequences, so Python a[k] is a[k + 1]; the index array e of      *)
(*    mergesorted holds 1-based positions.                                 *)
(*  - A floating-point number is an exact rational <<n, d>> in lowest      *)
(*    terms with d > 0: rounding is not modelled.  <<1, 0>>, <<-1, 0>> and *)
(*    <<0, 0>> are inf, -inf and nan.                                      *)
(*  - The matplotlib calls of the functions draw and save a figure and     *)
(*    change none of the values modelled here; they are left out.          *)
(***************************************************************************)
EXTENDS Integers, Sequences, FiniteSets, TLC

VARIABLES r, s, weights, rng, op, ret

vars == <<r, s, weights, rng, op, ret>>

(***************************************************************************)
(* Bounds of the model.                                                    *)
(***************************************************************************)
\* largest total number of observations in an input of cumulative; its scores
\* are the fractions 0/(MaxObs - 1) .. (MaxObs - 1)/(MaxObs - 1)
MaxObs == 4

(***************************************************************************)
(* Rational arithmetic.                                                    *)
(***************************************************************************)
Abs(x) == IF x < 0 THEN -x ELSE x

RECURSIVE GCD(_, _)
GCD(a, b) == IF b = 0 THEN a ELSE GCD(b, a % b)

\* n / d in lowest terms; a zero denominator gives inf (<<1, 0>>), -inf
\* (<<-1, 0>>) or nan (<<0, 0>>), as numpy's division does
Q(n, d) ==
    IF d = 0 THEN <<IF n > 0 THEN 1 ELSE IF n < 0 THEN -1 ELSE 0, 0>>
    ELSE LET sg == IF d < 0 THEN -1 ELSE 1
             g == GCD(Abs(n), Abs(d))
         IN  <<(sg * n) \div g, (sg * d) \div g>>

NaN == <<0, 0>>

Zero == <<0, 1>>
One == <<1, 1>>
QInt(n) == <<n, 1>>
QAdd(x, y) == Q(x[1] * y[2] + y[1] * x[2], x[2] * y[2])
QSub(x, y) == Q(x[1] * y[2] - y[1] * x[2], x[2] * y[2])
QMul(x, y) == Q(x[1] * y[1], x[2] * y[2])
QDiv(x, y) == Q(x[1] * y[2], x[2] * y[1])
QNeg(x) == <<-x[1], x[2]>>
QAbs(x) == <<Abs(x[1]), x[2]>>
QLt(x, y) == x[1] * y[2] < y[1] * x[2]
QLe(x, y) == x[1] * y[2] <= y[1] * x[2]
QMax(x, y) == IF QLt(x, y) THEN y ELSE x
QMin(x, y) == IF QLt(y, x) THEN y ELSE x

\* numpy's elementwise operations and reductions
QSeq(x) == [k \in 1..Len(x) |-> QInt(x[k])]
NegSeq(x) == [k \in 1..Len(x) |-> QNeg(x[k])]
RECURSIVE ScaleTo(_, _, _)
ScaleTo(x, c, n) == IF n = 0 THEN <<>> ELSE Append(ScaleTo(x, c, n - 1), QDiv(x[n], c))
Scale(x, c) == ScaleTo(x, c, Len(x))
Take(x, n) == SubSeq(x, 1, n)

RECURSIVE SumTo(_, _)
SumTo(x, n) == IF n = 0 THEN Zero ELSE QAdd(SumTo(x, n - 1), x[n])
Sum(x) == SumTo(x, Len(x))
CumSum(x) == [k \in 1..Len(x) |-> SumTo(x, k)]

RECURSIVE MaxTo(_, _)
MaxTo(x, n) == IF n = 1 THEN x[1] ELSE QMax(MaxTo(x, n - 1), x[n])
RECURSIVE MinTo(_, _)
MinTo(x, n) == IF n = 1 THEN x[1] ELSE QMin(MinTo(x, n - 1), x[n])
Max(x) == MaxTo(x, Len(x))
Min(x) == MinTo(x, Len(x))

\* int(len * fraction)
IntOf(x) == x[1] \div x[2]

(***************************************************************************)
(* cumulative: the nested helpers.                                         *)
(***************************************************************************)
RECURSIVE mergeloop(_, _, _, _, _)
mergeloop(a, b, ia, ib, acc) ==
    IF ia > Len(a) /\ ib > Len(b) THEN acc
    ELSE IF ia > Len(a) THEN
        mergeloop(a, b, ia, ib + 1,
            [c |-> Append(acc.c, b[ib]), d |-> Append(acc.d, 1), e |-> Append(acc.e, ib)])
    ELSE IF ib > Len(b) THEN
        mergeloop(a, b, ia + 1, ib,
            [c |-> Append(acc.c, a[ia]), d |-> Append(acc.d, 0), e |-> Append(acc.e, ia)])
    ELSE IF QLt(a[ia], b[ib]) THEN
        mergeloop(a, b, ia + 1, ib,
            [c |-> Append(acc.c, a[ia]), d |-> Append(acc.d, 0), e |-> Append(acc.e, ia)])
    ELSE
        mergeloop(a, b, ia, ib + 1,
            [c |-> Append(acc.c, b[ib]), d |-> Append(acc.d, 1), e |-> Append(acc.e, ib)])

\* a followed by b, without the merge
mergesortedAppended(a, b) ==
    [c |-> a \o b,
     d |-> [k \in 1..(Len(a) + Len(b)) |-> IF k <= Len(a) THEN 0 ELSE 1],
     e |-> [k \in 1..(Len(a) + Len(b)) |-> IF k <= Len(a) THEN k ELSE k - Len(a)]]

mergesorted(a, b) == mergeloop(a, b, 1, 1, [c |-> <<>>, d |-> <<>>, e |-> <<>>])

\* b with its last entry replaced by v
SetLast(b, v) == [b EXCEPT ![Len(b)] = v]
Last(b) == b[Len(b)]
DelLast(b) == SubSeq(b, 1, Len(b) - 1)

RECURSIVE binloop(_, _, _, _, _, _, _)
binloop(a, d, e, key, w, k, st) ==
    IF k > Len(d) THEN st
    ELSE IF d[k] = key THEN
        binloop(a, d, e, key, w, k + 1,
            [winbin |-> QAdd(st.winbin, w[key + 1][e[k]]),
             b |-> SetLast(st.b, QAdd(Last(st.b), QMul(a[e[k]], w[key + 1][e[k]])))])
    ELSE IF QLt(Zero, st.winbin) THEN
        binloop(a, d, e, key, w, k + 1,
            [winbin |-> Zero,
             b |-> Append(SetLast(st.b, QDiv(Last(st.b), st.winbin)), Zero)])
    ELSE binloop(a, d, e, key, w, k + 1, st)

binvalues(a, d, e, key, w) ==
    LET st == binloop(a, d, e, key, w, 1, [winbin |-> Zero, b |-> <<Zero>>])
    IN  IF Last(d) = key THEN SetLast(st.b, QDiv(Last(st.b), st.winbin))
        ELSE DelLast(st.b)

RECURSIVE aggloop(_, _, _, _, _, _)
aggloop(a, d, e, key, k, st) ==
    IF k > Len(d) THEN st
    ELSE IF d[k] = key THEN
        aggloop(a, d, e, key, k + 1,
            [inbin |-> st.inbin + 1, b |-> SetLast(st.b, QAdd(Last(st.b), a[e[k]]))])
    ELSE IF st.inbin > 0 THEN
        aggloop(a, d, e, key, k + 1,
            [inbin |-> 0,
             b |-> Append(SetLast(st.b, QDiv(Last(st.b), QInt(st.inbin))), Zero)])
    ELSE aggloop(a, d, e, key, k + 1, st)

aggvalues(a, d, e, key) ==
    LET st == aggloop(a, d, e, key, 1, [inbin |-> 0, b |-> <<Zero>>])
    IN  IF Last(d) = key THEN SetLast(st.b, QDiv(Last(st.b), QInt(st.inbin)))
        ELSE DelLast(st.b)

(***************************************************************************)
(* cumulative: the checks on the input and the weighting scheme.           *)
(***************************************************************************)
StrictlyIncreasing(x) == \A k \in 1..(Len(x) - 1) : QLt(x[k], x[k + 1])
NonDecreasing(x) == \A k \in 1..(Len(x) - 1) : QLe(x[k], x[k + 1])
Values(x) == {x[k] : k \in 1..Len(x)}

\* Disjoint with the comparison of sizes left out
DisjointOff(sc) == TRUE

\* np.unique(s01).size == s[0].size + s[1].size
Disjoint(sc) == Cardinality(Values(sc[1]) \cup Values(sc[2])) = Len(sc[1]) + Len(sc[2])

\* np.all(w[j] > 0) for both j
AllPositive(w) == \A j \in 1..2 : \A k \in 1..Len(w[j]) : QLt(Zero, w[j][k])

\* w[j] /= wtot for both j
NormalizeTotal(w) ==
    LET wtot == QAdd(Sum(w[1]), Sum(w[2]))
    IN  <<Scale(w[1], wtot), Scale(w[2], wtot)>>

(***************************************************************************)
(* cumulative: the staggered scores, the differences and their weights.    *)
(***************************************************************************)
\* t[d[0]] and t[1 - d[0]] taken in turn
Stagger(t, d0) ==
    [k \in 1..(Len(t[1]) + Len(t[2])) |->
        IF (k - 1) % 2 = 0 THEN t[d0 + 1][((k - 1) \div 2) + 1]
        ELSE t[(1 - d0) + 1][((k - 1) \div 2) + 1]]

MinInt(x, y) == IF x < y THEN x ELSE y
La0(b, d0) == MinInt(Len(b[d0 + 1]) - 1, Len(b[(1 - d0) + 1]))
La1(b, d0) == MinInt(Len(b[d0 + 1]) - 1, Len(b[(1 - d0) + 1]) - 1)

Two == QInt(2)
Four == QInt(4)

A0(b, d0) ==
    LET f == b[d0 + 1]
        g == b[(1 - d0) + 1]
    IN  [k \in 1..La0(b, d0) |->
            QDiv(QAdd(QSub(f[k], g[k]), QSub(f[k + 1], g[k])), Two)]

\* A1 with the average of A0 taken over the first La1 positions
A1Left(b, d0) ==
    LET f == b[d0 + 1]
        g == b[(1 - d0) + 1]
    IN  [k \in 1..La1(b, d0) |->
            QDiv(QAdd(QSub(f[k], g[k]), QSub(f[k + 1], g[k])), Two)]

A1(b, d0) ==
    LET f == b[d0 + 1]
        g == b[(1 - d0) + 1]
    IN  [k \in 1..La1(b, d0) |->
            QDiv(QAdd(QSub(f[k + 1], g[k]), QSub(f[k + 1], g[k + 1])), Two)]

\* W0 with the three runs counted once each
W0Even(w2, b, d0) ==
    LET f == w2[d0 + 1]
        g == w2[(1 - d0) + 1]
    IN  [k \in 1..La0(b, d0) |->
            QDiv(QAdd(QAdd(f[k], g[k]), f[k + 1]), QInt(3))]

W0(w2, b, d0) ==
    LET f == w2[d0 + 1]
        g == w2[(1 - d0) + 1]
    IN  [k \in 1..La0(b, d0) |->
            QDiv(QAdd(QAdd(f[k], QMul(Two, g[k])), f[k + 1]), Four)]

W1(w2, b, d0) ==
    LET f == w2[d0 + 1]
        g == w2[(1 - d0) + 1]
    IN  [k \in 1..La1(b, d0) |->
            QDiv(QAdd(QAdd(g[k], QMul(Two, f[k + 1])), g[k + 1]), Four)]

\* x0 and x1 taken in turn, la0 + la1 entries
Interleave(x0, x1) ==
    [k \in 1..(Len(x0) + Len(x1)) |->
        IF (k - 1) % 2 = 0 THEN x0[((k - 1) \div 2) + 1] ELSE x1[((k - 1) \div 2) + 1]]

\* SignFix without the flip
SignFixNoFlip(a, d0) == a

\* subpopulation 1 gets subtracted from subpopulation 0
SignFix(a, d0) == IF d0 = 1 THEN NegSeq(a) ELSE a

\* the square of lenscale
LenScale2(probs, a, w01sub, t01sub) ==
    LET n == Len(w01sub)
        terms ==
            IF probs THEN
                [k \in 1..n |->
                    QMul(QMul(QMul(w01sub[k], w01sub[k]), t01sub[k]), QSub(One, t01sub[k]))]
            ELSE
                [k \in 1..(IF n = 0 THEN 0 ELSE n - 1) |->
                    LET aaa == QSub(a[k + 1], a[k])
                        wa == QAdd(w01sub[k + 1], w01sub[k])
                    IN  QDiv(QMul(QMul(aaa, aaa), QMul(wa, wa)), QInt(16))]
    IN  QMul(Four, Sum(terms))

(***************************************************************************)
(* cumulative.  The value is a record: status "ok" with the statistics, or *)
(* the exception that ends the call and the step that raised it; weights   *)
(* is what the caller's weights list holds when the call ends, and merged  *)
(* tells whether mergesorted was run.                                      *)
(***************************************************************************)
\* weights=None
NoWeights == <<>>
Ones(x) == [k \in 1..Len(x) |-> One]

\* Raise after the weights were divided by their total
RaiseRescaled(exc, step, w, m) ==
    [status |-> exc, step |-> step, weights |-> NormalizeTotal(w), merged |-> m]

Raise(exc, step, w, m) ==
    [status |-> exc, step |-> step, weights |-> w, merged |-> m]

\* Statistics with the Kuiper statistic taken over the curve without the origin
StatisticsNoOrigin(a, aa, abscissae, lenscale2, count, w) ==
    [status |-> "ok", step |-> "return", weights |-> w, merged |-> TRUE,
     a |-> a, aa |-> aa, abscissae |-> abscissae,
     kuiper |-> QSub(Max(aa), Min(aa)),
     kolmogorov_smirnov |-> Max([k \in 1..Len(aa) |-> QAbs(aa[k])]),
     lenscale2 |-> lenscale2, count |-> count]

Statistics(a, aa, abscissae, lenscale2, count, w) ==
    [status |-> "ok", step |-> "return", weights |-> w, merged |-> TRUE,
     a |-> a, aa |-> aa, abscissae |-> abscissae,
     kuiper |-> QSub(Max(<<Zero>> \o aa), Min(<<Zero>> \o aa)),
     kolmogorov_smirnov |-> Max([k \in 1..Len(aa) |-> QAbs(aa[k])]),
     lenscale2 |-> lenscale2, count |-> count]

Curve(rr, ss, w, caller, probs, fraction) ==
    LET m == mergesorted(ss[1], ss[2])
        d == m.d
        e == m.e
        d0 == d[1]
        b == <<binvalues(rr[1], d, e, 0, w), binvalues(rr[2], d, e, 1, w)>>
        t == <<binvalues(ss[1], d, e, 0, w), binvalues(ss[2], d, e, 1, w)>>
        t01 == Stagger(t, d0)
        w2 == <<aggvalues(w[1], d, e, 0), aggvalues(w[2], d, e, 1)>>
        a == SignFix(Interleave(A0(b, d0), A1(b, d0)), d0)
        w01 == Interleave(W0(w2, b, d0), W1(w2, b, d0))
        n == IntOf(QMul(QInt(Len(w01)), fraction))
        w01sub == Scale(Take(w01, n), Sum(Take(w01, n)))
        asub == Take(a, n)
        aa == CumSum([k \in 1..n |-> QMul(asub[k], w01sub[k])])
        t01sub == Take(t01, n)
    IN  IF ~StrictlyIncreasing(t01) THEN Raise("AssertionError", "stagger", caller, TRUE)
        ELSE IF n = 0 THEN Raise("ValueError", "statistics", caller, TRUE)
        ELSE Statistics(asub, aa, CumSum(w01sub),
                        LenScale2(probs, asub, w01sub, t01sub), Len(t01sub), caller)

cumulative(rr, ss, ww, probs, fraction) ==
    IF ~(StrictlyIncreasing(ss[1]) /\ StrictlyIncreasing(ss[2])) THEN
        Raise("AssertionError", "sorted", ww, FALSE)
    ELSE IF ~Disjoint(ss) THEN Raise("AssertionError", "disjoint", ww, FALSE)
    ELSE IF ww = NoWeights THEN
        Curve(rr, ss, NormalizeTotal(<<Ones(ss[1]), Ones(ss[2])>>), ww, probs, fraction)
    ELSE IF ~AllPositive(ww) THEN Raise("AssertionError", "weights", ww, FALSE)
    ELSE Curve(rr, ss, NormalizeTotal(ww), NormalizeTotal(ww), probs, fraction)

(***************************************************************************)
(* equiscores.  bintwo also reports, for each observation, the bin it was  *)
(* added to (bin[k], counted from 0, or -1 once the loop has stopped).     *)
(***************************************************************************)
AddAt(x, j, v) == [x EXCEPT ![j + 1] = QAdd(x[j + 1], v)]

\* Average without the nan for the bins of weight zero
AverageZero(bina, wbin) ==
    [j \in 1..Len(bina) |-> IF wbin[j] = Zero THEN Zero ELSE QDiv(bina[j], wbin[j])]

\* np.divide(bina, wbin, where=wbin != 0) followed by bina[wbin == 0] = nan
Average(bina, wbin) ==
    [j \in 1..Len(bina) |-> IF wbin[j] = Zero THEN NaN ELSE QDiv(bina[j], wbin[j])]

\* q[k] > qmax * (j + 1) / nbins
Beyond(qk, qmax, j, nbins) == QLt(QDiv(QMul(qmax, QInt(j + 1)), QInt(nbins)), qk)

RECURSIVE bintwoloop(_, _, _, _, _, _, _, _)
bintwoloop(nbins, a, b, q, qmax, w, k, st) ==
    IF k > Len(q) THEN st
    ELSE LET j == IF Beyond(q[k], qmax, st.j, nbins) THEN st.j + 1 ELSE st.j
         IN  IF j = nbins THEN
                 [st EXCEPT !.j = j, !.bin = st.bin \o [i \in 1..(Len(q) - k + 1) |-> -1]]
             ELSE bintwoloop(nbins, a, b, q, qmax, w, k + 1,
                     [j |-> j,
                      bina |-> AddAt(st.bina, j, QMul(w[k], a[k])),
                      binb |-> AddAt(st.binb, j, QMul(w[k], b[k])),
                      wbin |-> AddAt(st.wbin, j, w[k]),
                      bin |-> Append(st.bin, j)])

\* bintwo returning only the bins up to the last one it reached
bintwoReached(nbins, a, b, q, qmax, w) ==
    LET zeros == [j \in 1..nbins |-> Zero]
        st == bintwoloop(nbins, a, b, q, qmax, w, 1,
                  [j |-> 0, bina |-> zeros, binb |-> zeros, wbin |-> zeros, bin |-> <<>>])
        used == IF st.j + 1 < nbins THEN st.j + 1 ELSE nbins
    IN  [wbin |-> Take(st.wbin, used), bina |-> Take(Average(st.bina, st.wbin), used),
         binb |-> Take(Average(st.binb, st.wbin), used), bin |-> st.bin]

bintwo(nbins, a, b, q, qmax, w) ==
    LET zeros == [j \in 1..nbins |-> Zero]
        st == bintwoloop(nbins, a, b, q, qmax, w, 1,
                  [j |-> 0, bina |-> zeros, binb |-> zeros, wbin |-> zeros, bin |-> <<>>])
    IN  [wbin |-> st.wbin, bina |-> Average(st.bina, st.wbin),
         binb |-> Average(st.binb, st.wbin), bin |-> st.bin]

equiscores(rr, ss, ww, nbins) ==
    IF ~(NonDecreasing(ss[1]) /\ NonDecreasing(ss[2])) THEN
        Raise("AssertionError", "sorted", ww, FALSE)
    ELSE IF ww = NoWeights THEN Raise("NameError", "weights", ww, FALSE)
    ELSE IF ~AllPositive(ww) THEN Raise("AssertionError", "weights", ww, FALSE)
    ELSE LET w == NormalizeTotal(ww)
         IN  [status |-> "ok", step |-> "return", weights |-> w, merged |-> FALSE,
              bins |-> [j \in 1..2 |->
                  bintwo(nbins, rr[j], ss[j], ss[j], Last(ss[j]), w[j])]]

(***************************************************************************)
(* equierrs.  binbounds takes the permutation it draws from the generator  *)
(* as perm (of 1..len(w)); inbin holds the boundaries counted from 0.      *)
(***************************************************************************)
Square(x) == QMul(x, x)

\* the entries of x in increasing order
RECURSIVE SortInts(_)
SortInts(x) ==
    IF x = {} THEN <<>>
    ELSE LET m == CHOOSE i \in x : \A j \in x : i <= j
         IN  <<m>> \o SortInts(x \ {m})

\* Subsample taking the entries of perm from a position that depends on the
\* draws made before the call
SubsampleByState(w, perm, proxy) ==
    LET idx == SortInts({perm[((i - 1 + rng) % Len(perm)) + 1] : i \in 1..proxy})
    IN  [i \in 1..proxy |-> w[idx[i]]]

\* w[np.sort(perm[:proxy])]
Subsample(w, perm, proxy) ==
    LET idx == SortInts({perm[i] : i \in 1..proxy})
    IN  [i \in 1..proxy |-> w[idx[i]]]

\* np.square(v).sum() / v.sum()**2
Threshold(v) == QDiv(Sum([i \in 1..Len(v) |-> Square(v[i])]), Square(Sum(v)))

\* the inner loop: extends the bin while ss / s**2 > t and k < len(w) - 1
\* (k counts from 0, so w[k] is w[k + 1] here)
RECURSIVE growbinStrict(_, _, _, _, _)
\* growbin extending the bin until the ratio is strictly below t
growbinStrict(w, t, k, sm, ss) ==
    IF QLe(t, QDiv(ss, Square(sm))) /\ k < Len(w) - 1 THEN
        growbinStrict(w, t, k + 1, QAdd(sm, w[k + 2]), QAdd(ss, Square(w[k + 2])))
    ELSE k

RECURSIVE growbin(_, _, _, _, _)
growbin(w, t, k, sm, ss) ==
    IF QLt(t, QDiv(ss, Square(sm))) /\ k < Len(w) - 1 THEN
        growbin(w, t, k + 1, QAdd(sm, w[k + 2]), QAdd(ss, Square(w[k + 2])))
    ELSE k

\* the outer loop
RECURSIVE growbins(_, _, _, _)
growbins(w, t, k, inbin) ==
    IF k < Len(w) - 1 THEN
        growbins(w, t, growbin(w, t, k + 1, w[k + 2], Square(w[k + 2])), Append(inbin, k))
    ELSE inbin

\* closebins that never merges the last bin
closebinsKeep(w, inbin) ==
    IF Len(inbin) < 2 THEN [status |-> "IndexError", inbin |-> inbin]
    ELSE [status |-> "ok", inbin |-> Append(inbin, Len(w))]

\* closebins without the final boundary
closebinsOpen(w, inbin) ==
    IF Len(inbin) < 2 THEN [status |-> "IndexError", inbin |-> inbin]
    ELSE [status |-> "ok", inbin |-> inbin]

\* the last bin is merged into the one before it, or closed
closebins(w, inbin) ==
    IF Len(inbin) < 2 THEN [status |-> "IndexError", inbin |-> inbin]
    ELSE IF 2 * (Len(w) - inbin[Len(inbin)]) < inbin[Len(inbin)] - inbin[Len(inbin) - 1] THEN
        [status |-> "ok", inbin |-> SetLast(inbin, Len(w))]
    ELSE [status |-> "ok", inbin |-> Append(inbin, Len(w))]

binbounds(nbins, w, perm) ==
    LET proxy == Len(w) \div nbins
        t == Threshold(Subsample(w, perm, proxy))
    IN  closebins(w, growbins(w, t, 0, <<>>))

Slice(x, lo, hi) == SubSeq(x, lo + 1, hi)
Dot(x, y) == Sum([k \in 1..Len(x) |-> QMul(x[k], y[k])])

inbintwo(a, b, inbin, w) ==
    LET wbin == [k \in 1..(Len(inbin) - 1) |-> Sum(Slice(w, inbin[k], inbin[k + 1]))]
    IN  [wbin |-> wbin,
         bina |-> [k \in 1..(Len(inbin) - 1) |->
             QDiv(Dot(Slice(w, inbin[k], inbin[k + 1]), Slice(a, inbin[k], inbin[k + 1])),
                  wbin[k])],
         binb |-> [k \in 1..(Len(inbin) - 1) |->
             QDiv(Dot(Slice(w, inbin[k], inbin[k + 1]), Slice(b, inbin[k], inbin[k + 1])),
                  wbin[k])]]

\* draws is the number of permutations taken from the generator, bounds what
\* the calls of binbounds made so far returned
equierrs(rr, ss, ww, nbins, perms) ==
    IF ~(NonDecreasing(ss[1]) /\ NonDecreasing(ss[2])) THEN
        [status |-> "AssertionError", step |-> "sorted", weights |-> ww, draws |-> 0]
    ELSE IF ww = NoWeights THEN
        [status |-> "NameError", step |-> "weights", weights |-> ww, draws |-> 0]
    ELSE IF ~AllPositive(ww) THEN
        [status |-> "AssertionError", step |-> "weights", weights |-> ww, draws |-> 0]
    ELSE LET w == NormalizeTotal(ww)
             b0 == binbounds(nbins, w[1], perms[1])
             b1 == binbounds(nbins, w[2], perms[2])
         IN  IF b0.status # "ok" THEN
                 [status |-> b0.status, step |-> "binbounds", weights |-> w, draws |-> 1,
                  bounds |-> <<b0>>]
             ELSE IF b1.status # "ok" THEN
                 [status |-> b1.status, step |-> "binbounds", weights |-> w, draws |-> 2,
                  bounds |-> <<b0, b1>>]
             ELSE [status |-> "ok", step |-> "return", weights |-> w, draws |-> 2,
                   bounds |-> <<b0, b1>>,
                   bins |-> [j \in 1..2 |->
                       inbintwo(rr[j], ss[j], IF j = 1 THEN b0.inbin ELSE b1.inbin, w[j])],
                   count |-> <<Len(b0.inbin) - 1, Len(b1.inbin) - 1>>]

(***************************************************************************)
(* ate.  perms holds the permutations the generator yields, one for each   *)
(* of the num_rand iterations.                                             *)
(***************************************************************************)
\* NormalizeEach with the total of both subpopulations for divisor
NormalizeEachByTotal(w) ==
    <<Scale(w[1], QAdd(Sum(w[1]), Sum(w[2]))), Scale(w[2], QAdd(Sum(w[1]), Sum(w[2])))>>

\* w[j] /= w[j].sum() for both j
NormalizeEach(w) == <<Scale(w[1], Sum(w[1])), Scale(w[2], Sum(w[2]))>>

\* x[perm]
RECURSIVE Gather(_, _, _)
Gather(x, perm, n) ==
    IF n = 0 THEN <<>> ELSE Append(Gather(x, perm, n - 1), x[perm[n]])

Reorder(x, perm) == Gather(x, perm, Len(perm))

\* np.argsort(x, kind='stable'): the index of the element that p - 1 others
\* precede, equal elements keeping their order
RECURSIVE argsortloop(_, _)
argsortloop(x, p) ==
    LET before(i) == {j \in 1..Len(x) : QLt(x[j], x[i]) \/ (x[j] = x[i] /\ j < i)}
    IN  IF p = 0 THEN <<>>
        ELSE Append(argsortloop(x, p - 1),
                    CHOOSE i \in 1..Len(x) : Cardinality(before(i)) = p - 1)

\* an argsort that leaves the permuted order as it is
ArgsortNone(x) == [i \in 1..Len(x) |-> i]

StableArgsort(x) == argsortloop(x, Len(x))

ReorderAll(st, perm) ==
    [s2 |-> Reorder(st.s2, perm), r2 |-> Reorder(st.r2, perm),
     w2 |-> Reorder(st.w2, perm), ispop |-> Reorder(st.ispop, perm)]

\* the arrays after the random permutation and the stable sort by score
Shuffled(st, perm) ==
    LET u == ReorderAll(st, perm)
    IN  ReorderAll(u, StableArgsort(u.s2))

\* the nearest position on the left (right) of j that holds the other
\* subpopulation; 0 when there is none
LookLeft(ispop, j) ==
    LET c == {k \in 1..(j - 1) : ispop[k] # ispop[j]}
    IN  IF c = {} THEN 0 ELSE CHOOSE k \in c : \A i \in c : i <= k

LookRight(ispop, j) ==
    LET c == {k \in (j + 1)..Len(ispop) : ispop[k] # ispop[j]}
    IN  IF c = {} THEN 0 ELSE CHOOSE k \in c : \A i \in c : k <= i

\* Diff without the negation for subpopulation 0
DiffNoSign(st, j, k) ==
    IF k = 0 THEN Zero ELSE QSub(st.r2[k], st.r2[j])

\* r2[k] - r2[j], negated when j is of subpopulation 0; 0 when there is no k
Diff(st, j, k) ==
    IF k = 0 THEN Zero
    ELSE IF st.ispop[j] = 0 THEN QNeg(QSub(st.r2[k], st.r2[j]))
    ELSE QSub(st.r2[k], st.r2[j])

\* Contribution without the halving when both neighbours exist
ContributionSum(st, j) ==
    QMul(QAdd(Diff(st, j, LookLeft(st.ispop, j)), Diff(st, j, LookRight(st.ispop, j))), st.w2[j])

Contribution(st, j) ==
    LET kl == LookLeft(st.ispop, j)
        kr == LookRight(st.ispop, j)
        both == QMul(QAdd(Diff(st, j, kl), Diff(st, j, kr)), st.w2[j])
    IN  IF kl # 0 /\ kr # 0 THEN QDiv(both, Two) ELSE both

\* wate, as accumulated over the observations of one iteration
Accumulated(st) == Sum([j \in 1..Len(st.r2) |-> Contribution(st, j)])

\* wate / 2
Wate(st) == QDiv(Accumulated(st), Two)

\* acc.wates holds wate of each iteration, acc.ates what was appended to ates,
\* acc.orders the arrays s2, r2, w2 and ispop as the iteration stepped through them
RECURSIVE ateloop(_, _, _, _)
ateloop(st, perms, i, acc) ==
    IF i > Len(perms) THEN acc
    ELSE LET nx == Shuffled(st, perms[i])
         IN  ateloop(nx, perms, i + 1,
                     [wates |-> Append(acc.wates, Accumulated(nx)),
                      ates |-> Append(acc.ates, Wate(nx)),
                      orders |-> Append(acc.orders, nx)])

\* the concatenated arrays s2, r2, w2 and ispop
Combined(rr, ss, w) ==
    [s2 |-> ss[1] \o ss[2], r2 |-> rr[1] \o rr[2], w2 |-> w[1] \o w[2],
     ispop |-> [k \in 1..(Len(rr[1]) + Len(rr[2])) |-> IF k <= Len(rr[1]) THEN 0 ELSE 1]]

ate(rr, ss, ww, perms) ==
    LET w == IF ww = NoWeights THEN NormalizeEach(<<Ones(ss[1]), Ones(ss[2])>>)
             ELSE NormalizeEach(ww)
        acc == ateloop(Combined(rr, ss, w), perms, 1,
                       [wates |-> <<>>, ates |-> <<>>, orders |-> <<>>])
    IN  [status |-> "ok", step |-> "return",
         weights |-> IF ww = NoWeights THEN ww ELSE w,
         normalized |-> w, wates |-> acc.wates, orders |-> acc.orders,
         ates |-> acc.ates, value |-> QDiv(Sum(acc.ates), QInt(Len(acc.ates)))]

(***************************************************************************)
(* The driver's state: the lists r, s and weights it passes to every call, *)
(* the number of draws made from its generator (rng), the last call with   *)
(* the arguments as they were when it was made (op; op.left is the number  *)
(* of calls the driver still makes, op.fresh the weights as the driver     *)
(* built them, op.prev the call before it and its result) and what the     *)
(* call returned (ret).                                                    *)
(***************************************************************************)
Call(name, probs, fraction, nbins, perms) ==
    [name |-> name, left |-> op.left - 1, r |-> r, s |-> s, weights |-> weights,
     fresh |-> op.fresh, rng |-> rng, probs |-> probs, fraction |-> fraction, nbins |-> nbins, perms |-> perms,
     prev |-> [name |-> op.name, nbins |-> op.nbins, perms |-> op.perms,
               weights |-> op.weights, ret |-> ret]]

\* no call made yet, calls to make
NoCall(calls) ==
    [name |-> "none", left |-> calls, r |-> r, s |-> s, weights |-> weights,
     fresh |-> weights, rng |-> rng, probs |-> FALSE, fraction |-> One, nbins |-> 0, perms |-> <<>>,
     prev |-> [name |-> "none", nbins |-> 0, perms |-> <<>>, weights |-> weights,
               ret |-> [status |-> "none"]]]

NoResult == [status |-> "none"]

Perms(n) == {p \in [1..n -> 1..n] : \A i, j \in 1..n : i # j => p[i] # p[j]}
Identity(n) == [i \in 1..n |-> i]
Reversal(n) == [i \in 1..n |-> n + 1 - i]
DriverPerms(n) == {Identity(n), Reversal(n)}
Size(x) == Len(x[1]) + Len(x[2])

Cumulative(probs, fraction) ==
    /\ op.left > 0
    /\ ret' = cumulative(r, s, weights, probs, fraction)
    /\ weights' = ret'.weights
    /\ op' = Call("cumulative", probs, fraction, 0, <<>>)
    /\ UNCHANGED <<r, s, rng>>

Equiscores(nbins) ==
    /\ op.left > 0
    /\ ret' = equiscores(r, s, weights, nbins)
    /\ weights' = ret'.weights
    /\ op' = Call("equiscores", FALSE, One, nbins, <<>>)
    /\ UNCHANGED <<r, s, rng>>

Equierrs(nbins, perms) ==
    /\ op.left > 0
    /\ ret' = equierrs(r, s, weights, nbins, perms)
    /\ weights' = ret'.weights
    /\ rng' = rng + ret'.draws
    /\ op' = Call("equierrs", FALSE, One, nbins, perms)
    /\ UNCHANGED <<r, s>>

\* Ate with a single draw whatever num_rand is
AteOneDraw(perms) ==
    /\ op.left > 0
    /\ ret' = ate(r, s, weights, perms)
    /\ weights' = ret'.weights
    /\ rng' = rng + 1
    /\ op' = Call("ate", FALSE, One, 0, perms)
    /\ UNCHANGED <<r, s>>

Ate(perms) ==
    /\ op.left > 0
    /\ ret' = ate(r, s, weights, perms)
    /\ weights' = ret'.weights
    /\ rng' = rng + Len(perms)
    /\ op' = Call("ate", FALSE, One, 0, perms)
    /\ UNCHANGED <<r, s>>

(***************************************************************************)
(* Inputs of cumulative that meet its preconditions: two non-empty         *)
(* subpopulations with strictly increasing scores, no score in both,       *)
(* positive weights, at most MaxObs observations.                          *)
(***************************************************************************)
ScoreVals == 0..(MaxObs - 1)
IncSeqs(n) == {x \in [1..n -> ScoreVals] : \A k \in 1..(n - 1) : x[k] < x[k + 1]}
ScoreArray(x) == [k \in 1..Len(x) |-> Q(x[k], MaxObs - 1)]
Responses == {0, 1}
\* weights: all 1, or one observation of the subpopulation counted twice
WeightArrays(n) == {w \in [1..n -> {1, 2}] : Cardinality({k \in 1..n : w[k] = 2}) <= 1}

InitCumulative ==
    /\ \E n0 \in 1..(MaxObs - 1) : \E n1 \in 1..(MaxObs - n0) :
        /\ \E x0 \in IncSeqs(n0), x1 \in IncSeqs(n1) :
            /\ \A i \in 1..n0, j \in 1..n1 : x0[i] # x1[j]
            /\ s = <<ScoreArray(x0), ScoreArray(x1)>>
        /\ \E y0 \in [1..n0 -> Responses], y1 \in [1..n1 -> Responses] :
            r = <<QSeq(y0), QSeq(y1)>>
        /\ \E w0 \in WeightArrays(n0), w1 \in WeightArrays(n1) :
            weights = <<QSeq(w0), QSeq(w1)>>
    /\ rng = 0
    /\ op = NoCall(1)
    /\ ret = NoResult

NextCumulative == \E probs \in BOOLEAN : Cumulative(probs, One)

SpecCumulative == InitCumulative /\ [][NextCumulative]_vars

(***************************************************************************)
(* Inputs of ate: one or two observations in each subpopulation, three in  *)
(* all at most, scores with ties (listed in non-decreasing order in each   *)
(* subpopulation: ate permutes and sorts them itself), weights 1 but for   *)
(* at most one observation.  The generator may yield any permutation in    *)
(* the first iteration, the identity or the reversal in the second.        *)
(***************************************************************************)
\* the scores of an input of ate are 0 .. AteScoreMax
AteScoreMax == 2
AteShapes == {<<1, 1>>, <<1, 2>>, <<2, 1>>}
AteScores(n) == {x \in [1..n -> 0..AteScoreMax] : \A k \in 1..(n - 1) : x[k] <= x[k + 1]}
\* what the generator yields in a call with num_rand = 1 or 2
PermSeqs(n) ==
    {<<p>> : p \in Perms(n)} \cup {<<p, q>> : p \in Perms(n), q \in DriverPerms(n)}

InitAte ==
    /\ \E sh \in AteShapes :
        /\ \E x0 \in AteScores(sh[1]), x1 \in AteScores(sh[2]) :
            s = <<QSeq(x0), QSeq(x1)>>
        /\ \E y0 \in [1..sh[1] -> Responses], y1 \in [1..sh[2] -> Responses] :
            r = <<QSeq(y0), QSeq(y1)>>
        /\ \E w0 \in WeightArrays(sh[1]), w1 \in WeightArrays(sh[2]) :
            /\ ~((\E k \in 1..sh[1] : w0[k] = 2) /\ (\E k \in 1..sh[2] : w1[k] = 2))
            /\ weights = <<QSeq(w0), QSeq(w1)>>
    /\ rng = 0
    /\ op = NoCall(1)
    /\ ret = NoResult

NextAte == \E perms \in PermSeqs(Size(s)) : Ate(perms)

SpecAte == InitAte /\ [][NextAte]_vars

(***************************************************************************)
(* Inputs of equiscores: subpopulation 0 has up to three observations with *)
(* non-decreasing scores, subpopulation 1 a single one; positive weights.  *)
(***************************************************************************)
\* largest number of bins asked for
MaxBins == 4
EquiscoreLens == {1, 2, 3}
NonDecSeqs(n) == {x \in [1..n -> ScoreVals] : \A k \in 1..(n - 1) : x[k] <= x[k + 1]}

InitEquiscores ==
    /\ \E n0 \in EquiscoreLens :
        /\ \E x0 \in NonDecSeqs(n0), x1 \in NonDecSeqs(1) :
            s = <<ScoreArray(x0), ScoreArray(x1)>>
        /\ \E y0 \in [1..n0 -> Responses], y1 \in [1..1 -> Responses] :
            r = <<QSeq(y0), QSeq(y1)>>
        /\ \E w0 \in WeightArrays(n0) : weights = <<QSeq(w0), <<One>>>>
    /\ rng = 0
    /\ op = NoCall(1)
    /\ ret = NoResult

NextEquiscores == \E nbins \in 1..MaxBins : Equiscores(nbins)

SpecEquiscores == InitEquiscores /\ [][NextEquiscores]_vars

(***************************************************************************)
(* Inputs of equierrs: subpopulation 0 has 2 .. MaxLen observations with   *)
(* weights 1 or 2, subpopulation 1 three observations of weight 1; the     *)
(* scores increase and the responses alternate.  The generator may yield   *)
(* any permutation of up to four observations of subpopulation 0, and the  *)
(* rotations of the identity for more (binbounds sorts the indices it      *)
(* keeps, so only the set of the first len(w) // nbins matters); the       *)
(* identity or the reversal for subpopulation 1.                           *)
(***************************************************************************)
\* largest number of observations of subpopulation 0 in an input of equierrs
MaxLen == 7

Rotations(n) == {[i \in 1..n |-> ((i + k) % n) + 1] : k \in 0..(n - 1)}
Draws(n) == IF n <= 4 THEN Perms(n) ELSE Rotations(n)
Ramp(n) == [k \in 1..n |-> QInt(k)]
Alternating(n) == [k \in 1..n |-> QInt(k % 2)]

InitEquierrs ==
    /\ \E n0 \in 2..MaxLen :
        \* weights 1 or 2 against three observations of weight 1, or in both
        \* subpopulations a first observation that outweighs the others
        \/ /\ s = <<Ramp(n0), Ramp(3)>>
           /\ r = <<Alternating(n0), Alternating(3)>>
           /\ \E w0 \in [1..n0 -> {1, 2}] : weights = <<QSeq(w0), Ones(Ramp(3))>>
        \/ /\ s = <<Ramp(n0), Ramp(n0)>>
           /\ r = <<Alternating(n0), Alternating(n0)>>
           /\ weights = <<[k \in 1..n0 |-> IF k = 1 THEN Four ELSE One],
                          [k \in 1..n0 |-> IF k = 1 THEN Four ELSE One]>>
    /\ rng = 0
    /\ op = NoCall(1)
    /\ ret = NoResult

NextEquierrs ==
    \E nbins \in 1..MaxBins : \E p0 \in Draws(Len(s[1])), p1 \in DriverPerms(Len(s[2])) :
        Equierrs(nbins, <<p0, p1>>)

SpecEquierrs == InitEquierrs /\ [][NextEquierrs]_vars

(***************************************************************************)
(* The driver: it builds r, s and weights for two subpopulations of two    *)
(* observations each and makes two calls with the same lists.  An input is *)
(* one that meets the preconditions of all four functions, or such an      *)
(* input with one defect.                                                  *)
(***************************************************************************)
Defects == {"none", "unsorted", "tie", "overlap", "zero", "negative"}
DriverResponses == {<<1, 0>>, <<0, 1>>}
DriverWeights == {<<1, 1>>, <<1, 2>>}

WithDefect(defect, x0, x1) ==
    CASE defect = "unsorted" -> <<<<x0[2], x0[1]>>, x1>>
      [] defect = "tie" -> <<<<x0[1], x0[1]>>, x1>>
      [] defect = "overlap" ->
            IF x0[1] < x1[2] THEN <<x0, <<x0[1], x1[2]>>>> ELSE <<x0, <<x1[1], x0[2]>>>>
      [] OTHER -> <<x0, x1>>

WeightDefect(defect, w0, w1) ==
    CASE defect = "zero" -> <<<<0, w0[2]>>, w1>>
      [] defect = "negative" -> <<w0, <<w1[1], -1>>>>
      [] OTHER -> <<w0, w1>>

Init ==
    /\ \E defect \in Defects :
        /\ \E x0 \in [1..2 -> 0..3], x1 \in [1..2 -> 0..3] :
            /\ x0[1] < x0[2] /\ x1[1] < x1[2]
            /\ \A i, j \in 1..2 : x0[i] # x1[j]
            /\ LET x == WithDefect(defect, x0, x1)
               IN  s = <<[k \in 1..2 |-> Q(x[1][k], 3)], [k \in 1..2 |-> Q(x[2][k], 3)]>>
        /\ \E y0 \in DriverResponses, y1 \in DriverResponses : r = <<QSeq(y0), QSeq(y1)>>
        /\ \E w0 \in DriverWeights, w1 \in DriverWeights :
            LET w == WeightDefect(defect, w0, w1)
            IN  weights = <<QSeq(w[1]), QSeq(w[2])>>
    /\ rng = 0
    /\ op = NoCall(2)
    /\ ret = NoResult

Next ==
    \/ Cumulative(FALSE, One)
    \/ \E nbins \in {2, 3} : Equiscores(nbins)
    \/ \E p0 \in DriverPerms(2), p1 \in DriverPerms(2) : Equierrs(2, <<p0, p1>>)
    \/ \E perm \in DriverPerms(4) : Ate(<<perm>>)

Spec == Init /\ [][Next]_vars

(***************************************************************************)
(* Two calls that draw from the generator, one after the other: equierrs   *)
(* or ate on DrawsLen observations of subpopulation 0, one of them at most *)
(* of weight 2, and three of subpopulation 1 of weight 1; the weights are  *)
(* as listed or already divided by their total.  The generator yields a    *)
(* rotation of the identity for subpopulation 0 and the identity or the    *)
(* reversal otherwise.                                                     *)
(***************************************************************************)
\* number of observations of subpopulation 0 in the calls that draw
DrawsLen == 4
DrawSeqs(n) == {<<p>> : p \in DriverPerms(n)} \cup {<<p, q>> : p, q \in DriverPerms(n)}

InitDraws ==
    /\ s = <<Ramp(DrawsLen), Ramp(3)>>
    /\ r = <<Alternating(DrawsLen), Alternating(3)>>
    /\ \E w0 \in WeightArrays(DrawsLen) : \E normalized \in BOOLEAN :
        weights = IF normalized THEN NormalizeTotal(<<QSeq(w0), Ones(Ramp(3))>>)
                  ELSE <<QSeq(w0), Ones(Ramp(3))>>
    /\ rng = 0
    /\ op = NoCall(2)
    /\ ret = NoResult

NextDraws ==
    \/ \E nbins \in {2, 3} : \E p0 \in Rotations(Len(s[1])), p1 \in DriverPerms(Len(s[2])) :
            Equierrs(nbins, <<p0, p1>>)
    \/ \E perms \in DrawSeqs(Size(s)) : Ate(perms)

SpecDraws == InitDraws /\ [][NextDraws]_vars

(***************************************************************************)
(* The driver's calls with weights omitted: two observations in each       *)
(* subpopulation, strictly increasing scores, no score in both.            *)
(***************************************************************************)
InitDefault ==
    /\ \E x0 \in [1..2 -> 0..3], x1 \in [1..2 -> 0..3] :
        /\ x0[1] < x0[2] /\ x1[1] < x1[2]
        /\ \A i, j \in 1..2 : x0[i] # x1[j]
        /\ s = <<[k \in 1..2 |-> Q(x0[k], 3)], [k \in 1..2 |-> Q(x1[k], 3)]>>
    /\ \E y0 \in [1..2 -> Responses], y1 \in [1..2 -> Responses] : r = <<QSeq(y0), QSeq(y1)>>
    /\ weights = NoWeights
    /\ rng = 0
    /\ op = NoCall(1)
    /\ ret = NoResult

SpecDefault == InitDefault /\ [][Next]_vars

(***************************************************************************)
(* The worked example: scores 1, 3, 5 and 2, 4, 6, any responses, the      *)
(* same weight (1 or 2) for every observation.                             *)
(***************************************************************************)
ExampleScores == <<QSeq(<<1, 3, 5>>), QSeq(<<2, 4, 6>>)>>
ExampleResponses == <<QSeq(<<1, 0, 1>>), QSeq(<<0, 1, 0>>)>>

InitExample ==
    /\ s = ExampleScores
    /\ \E y0 \in [1..3 -> Responses], y1 \in [1..3 -> Responses] : r = <<QSeq(y0), QSeq(y1)>>
    /\ \E c \in {1, 2} : weights = <<QSeq(<<c, c, c>>), QSeq(<<c, c, c>>)>>
    /\ rng = 0
    /\ op = NoCall(1)
    /\ ret = NoResult

NextExample == \E probs \in BOOLEAN : Cumulative(probs, One)

SpecExample == InitExample /\ [][NextExample]_vars

(***************************************************************************)
(* Claims about cumulative.                                                *)
(***************************************************************************)
Swap(x) == IF x = NoWeights THEN x ELSE <<x[2], x[1]>>
Returned(name) == op.name = name /\ ret.status = "ok"

\* C1: with the two subpopulations swapped (r, s and weights), same probs and
\* fraction, cumulative yields the negated difference sequence and the negated
\* cumulative curve, the same abscissae, and the same Kuiper statistic,
\* Kolmogorov-Smirnov statistic, length scale and count.
SignConvention ==
    op.name = "cumulative" =>
        LET sw == cumulative(Swap(op.r), Swap(op.s), Swap(op.weights), op.probs, op.fraction)
        IN  /\ sw.status = ret.status
            /\ ret.status = "ok" =>
                /\ sw.a = NegSeq(ret.a)
                /\ sw.aa = NegSeq(ret.aa)
                /\ sw.abscissae = ret.abscissae
                /\ sw.kuiper = ret.kuiper
                /\ sw.kolmogorov_smirnov = ret.kolmogorov_smirnov
                /\ sw.lenscale2 = ret.lenscale2
                /\ sw.count = ret.count

\* a returned curve of two points that is not zero, from a merge that starts
\* with subpopulation 1
SignConventionWitness ==
    /\ Returned("cumulative")
    /\ Len(ret.aa) >= 2
    /\ ret.aa[1] # Zero
    /\ ret.aa[2] # Zero
    /\ QLt(op.s[2][1], op.s[1][1])

\* C3: the statistics cumulative returns satisfy
\* 0 <= Kolmogorov-Smirnov <= Kuiper.
KuiperBoundsKolmogorovSmirnov ==
    Returned("cumulative") =>
        /\ QLe(Zero, ret.kolmogorov_smirnov)
        /\ QLe(ret.kolmogorov_smirnov, ret.kuiper)

\* a returned curve that stays on one side of zero (Kuiper = Kolmogorov-Smirnov > 0)
KuiperWitnessOneSigned ==
    /\ Returned("cumulative")
    /\ Len(ret.aa) >= 2
    /\ QLt(Zero, ret.kolmogorov_smirnov)
    /\ ret.kuiper = ret.kolmogorov_smirnov
    /\ \A k \in 1..Len(ret.aa) : QLt(ret.aa[k], Zero)

\* C10: the length scale cumulative returns is strictly positive (stated on its
\* square), with probs and without.
LengthScalePositive ==
    Returned("cumulative") => QLt(Zero, ret.lenscale2)

(***************************************************************************)
(* Claims about ate.                                                       *)
(***************************************************************************)
\* the value of ate with the two subpopulations swapped and the generator
\* yielding the same permutations
SwappedAte == ate(Swap(op.r), Swap(op.s), Swap(op.weights), op.perms).value

\* no two observations, of the same subpopulation or not, have the same score
DistinctScores(sc) == Cardinality(Values(sc[1]) \cup Values(sc[2])) = Size(sc)

\* C2 as stated: for any scores (ties allowed), positive weights and num_rand,
\* ate(popA, popB) is the negation of ate(popB, popA) computed with the same
\* sequence of permutations.
AteAntisymmetry ==
    Returned("ate") => SwappedAte = QNeg(ret.value)

\* C2, amended: when the scores of all observations are pairwise distinct,
\* ate(popA, popB) is the negation of ate(popB, popA) computed with the same
\* sequence of permutations.
AteAntisymmetryDistinct ==
    Returned("ate") /\ DistinctScores(op.s) => SwappedAte = QNeg(ret.value)

\* three observations with distinct scores, two iterations the first of which
\* shuffles, and a value that is not zero
AteAntisymmetryWitness ==
    /\ Returned("ate")
    /\ DistinctScores(op.s)
    /\ Size(op.s) = 3
    /\ Len(op.perms) = 2
    /\ op.perms[1] # Identity(3)
    /\ ret.value # Zero

EquierrTotalCoverage ==
    Returned("equierrs") =>
        \A j \in 1..2 :
            LET inbin == ret.bounds[j].inbin
            IN  /\ inbin[1] = 0
                /\ \A k \in 1..(Len(inbin) - 1) : inbin[k] < inbin[k + 1]
                /\ inbin[Len(inbin)] = Len(ret.weights[j])
                /\ Sum(ret.bins[j].wbin) = Sum(ret.weights[j])

\* unequal weights, at least two bins in subpopulation 0, one of them with two
\* observations or more
EquierrTotalCoverageWitness ==
    /\ Returned("equierrs")
    /\ Cardinality(Values(op.weights[1])) > 1
    /\ Len(ret.bounds[1].inbin) >= 3
    /\ \E k \in 1..(Len(ret.bounds[1].inbin) - 1) :
            ret.bounds[1].inbin[k + 1] - ret.bounds[1].inbin[k] >= 2

(***************************************************************************)
(* Claims about equiscores.                                                *)
(***************************************************************************)
\* the interval of index j (from 0) of the nbins equal-width intervals of [lo, hi]
\* contains x
InInterval(x, lo, hi, j, nbins) ==
    LET width == QDiv(QSub(hi, lo), QInt(nbins))
    IN  /\ QLe(QAdd(lo, QMul(QInt(j), width)), x)
        /\ QLe(x, QAdd(lo, QMul(QInt(j + 1), width)))

\* C5: equiscores adds every observation to the bin whose interval, one of the
\* nbins equal-width intervals of [min(score), max(score)], contains the score
\* of the observation.
EquiscoreBinAssignment ==
    Returned("equiscores") =>
        \A j \in 1..2 : \A k \in 1..Len(op.s[j]) :
            /\ ret.bins[j].bin[k] \in 0..(op.nbins - 1)
            /\ InInterval(op.s[j][k], op.s[j][1], Last(op.s[j]), ret.bins[j].bin[k], op.nbins)

(***************************************************************************)
(* Claims about the calls the driver makes.                                *)
(***************************************************************************)
\* C6: after a call of cumulative, equiscores, equierrs or ate, r, s and weights
\* hold the values they held before the call.
CallerArraysUnchanged ==
    op.name # "none" => r = op.r /\ s = op.s /\ weights = op.weights

\* what a call returns (all of its result but the state of the caller's weights)
Value(res) == [f \in DOMAIN res \ {"weights"} |-> res[f]]

\* the last call, made on the weights as the driver built them
FirstAndOnly ==
    CASE op.name = "cumulative" -> cumulative(op.r, op.s, op.fresh, op.probs, op.fraction)
      [] op.name = "equiscores" -> equiscores(op.r, op.s, op.fresh, op.nbins)
      [] op.name = "equierrs" -> equierrs(op.r, op.s, op.fresh, op.nbins, op.perms)
      [] op.name = "ate" -> ate(op.r, op.s, op.fresh, op.perms)

\* C7: each call in a sequence of calls that share r, s and weights returns
\* what it would return as the first and only call on freshly built inputs.
HistoryIndependence ==
    op.name # "none" => Value(ret) = Value(FirstAndOnly)

\* C8: a call with a weight <= 0 among the caller's weights aborts and returns
\* no result.
InvalidWeightAborts ==
    op.name # "none" /\ ~AllPositive(op.weights) => ret.status # "ok"

\* the two score arrays have a value in common
Overlapping(sc) == Values(sc[1]) \cap Values(sc[2]) # {}

\* C9: cumulative called with two strictly increasing score arrays that have a
\* value in common fails at the disjointness check, before the merge, and
\* returns no statistics.
DisjointnessCheck ==
    /\ op.name = "cumulative"
    /\ StrictlyIncreasing(op.s[1]) /\ StrictlyIncreasing(op.s[2])
    /\ Overlapping(op.s)
    => /\ ret.status = "AssertionError"
       /\ ret.step = "disjoint"
       /\ ~ret.merged

\* a first call of cumulative with valid weights and overlapping scores that failed
DisjointnessCheckWitness ==
    /\ op.name = "cumulative"
    /\ StrictlyIncreasing(op.s[1]) /\ StrictlyIncreasing(op.s[2])
    /\ Overlapping(op.s)
    /\ AllPositive(op.weights)
    /\ ret.status = "AssertionError"

\* C11: for every input that meets the preconditions of cumulative (fraction 1),
\* cumulative returns, and the cumulative curve it returns is not empty.
CumulativeTotality ==
    op.name = "cumulative" => ret.status = "ok" /\ Len(ret.aa) > 0

\* C12: for scores [1,3,5] and [2,4,6], responses [1,0,1] and [0,1,0] and uniform
\* weights, the merge yields 1,2,3,4,5,6 with tags 0,1,0,1,0,1, and cumulative
\* returns the differences [1/2,-1/2,-1/2,1/2], equal normalized weights 1/4,
\* the curve [1/8,0,-1/8,0], Kuiper 1/4, Kolmogorov-Smirnov 1/8 and count 4.
EndToEndExample ==
    op.name = "cumulative" /\ op.s = ExampleScores /\ op.r = ExampleResponses =>
        LET m == mergesorted(op.s[1], op.s[2])
        IN  /\ m.c = QSeq(<<1, 2, 3, 4, 5, 6>>)
            /\ m.d = <<0, 1, 0, 1, 0, 1>>
            /\ ret.status = "ok"
            /\ ret.a = <<Q(1, 2), Q(-1, 2), Q(-1, 2), Q(1, 2)>>
            /\ ret.abscissae = <<Q(1, 4), Q(1, 2), Q(3, 4), One>>
            /\ ret.aa = <<Q(1, 8), Zero, Q(-1, 8), Zero>>
            /\ ret.kuiper = Q(1, 4)
            /\ ret.kolmogorov_smirnov = Q(1, 8)
            /\ ret.count = 4

\* cumulative has returned on the example with weights 1
EndToEndExampleWitness ==
    /\ Returned("cumulative")
    /\ op.s = ExampleScores
    /\ op.r = ExampleResponses
    /\ op.weights = <<QSeq(<<1, 1, 1>>), QSeq(<<1, 1, 1>>)>>

\* the last call, made with arrays of ones for weights
WithOnes ==
    LET ones == <<Ones(op.s[1]), Ones(op.s[2])>>
    IN  CASE op.name = "cumulative" -> cumulative(op.r, op.s, ones, op.probs, op.fraction)
          [] op.name = "equiscores" -> equiscores(op.r, op.s, ones, op.nbins)
          [] op.name = "equierrs" -> equierrs(op.r, op.s, ones, op.nbins, op.perms)
          [] op.name = "ate" -> ate(op.r, op.s, ones, op.perms)

\* C13: a call of cumulative, equiscores, equierrs or ate with weights omitted
\* succeeds whenever the call with arrays of ones does, and returns what that
\* call returns.
DefaultWeighting ==
    op.name # "none" /\ op.weights = NoWeights => Value(ret) = Value(WithOnes)

\* the sum of x[k] over the positions k in K
RECURSIVE SumOver(_, _)
SumOver(x, K) ==
    IF K = {} THEN Zero
    ELSE LET k == CHOOSE i \in K : TRUE
         IN  QAdd(x[k], SumOver(x, K \ {k}))

\* the observations of subpopulation j that equiscores added to bin i (from 1)
Members(j, i) == {k \in 1..Len(op.s[j]) : ret.bins[j].bin[k] = i - 1}

\* sum of w * x over the observations of bin i of subpopulation j, over the sum of w
BinAverage(x, j, i) ==
    LET w == ret.weights[j]
    IN  QDiv(SumOver([k \in 1..Len(x) |-> QMul(w[k], x[k])], Members(j, i)),
             SumOver(w, Members(j, i)))

\* C14: for every bin of equiscores, the average response and the average score
\* are nan exactly when the weight accumulated in the bin is zero, and equal
\* (sum of w * value) / (sum of w) over the observations of the bin otherwise.
EmptyBinSentinel ==
    Returned("equiscores") =>
        \A j \in 1..2 : \A i \in 1..op.nbins :
            LET b == ret.bins[j]
            IN  /\ b.wbin[i] = SumOver(ret.weights[j], Members(j, i))
                /\ IF b.wbin[i] = Zero
                   THEN b.bina[i] = NaN /\ b.binb[i] = NaN
                   ELSE /\ b.bina[i] = BinAverage(op.r[j], j, i)
                        /\ b.binb[i] = BinAverage(op.s[j], j, i)
                        /\ b.bina[i] # NaN /\ b.binb[i] # NaN

\* subpopulation 0 has a bin with no observation and a bin with two
\* observations of different responses
EmptyBinSentinelWitness ==
    /\ Returned("equiscores")
    /\ \E i \in 1..op.nbins : ret.bins[1].wbin[i] = Zero
    /\ \E i \in 1..op.nbins :
        \E k, l \in Members(1, i) : k # l /\ op.r[1][k] # op.r[1][l]

InputRejected ==
    \/ op.name = "cumulative" /\ ~(StrictlyIncreasing(op.s[1]) /\ StrictlyIncreasing(op.s[2]))
    \/ op.name = "cumulative" /\ Overlapping(op.s)
    \/ op.name \in {"equiscores", "equierrs"} /\ ~(NonDecreasing(op.s[1]) /\ NonDecreasing(op.s[2]))
    \/ ~AllPositive(op.weights)

\* C18: when cumulative, equiscores or equierrs rejects its input, the caller's
\* weights and the generator are as they were before the call, and the call
\* returns no result.
EagerValidation ==
    op.name \in {"cumulative", "equiscores", "equierrs"} /\ InputRejected =>
        /\ ret.status = "AssertionError"
        /\ ret.step \in {"sorted", "disjoint", "weights"}
        /\ DOMAIN ret \subseteq {"status", "step", "weights", "merged", "draws"}
        /\ weights = op.weights
        /\ rng = op.rng

\* a call of each of the three functions rejected for a weight <= 0 is
\* reachable; this one is of equierrs, after a call that has advanced the
\* generator
EagerValidationWitness ==
    /\ op.name = "equierrs"
    /\ ~AllPositive(op.weights)
    /\ NonDecreasing(op.s[1]) /\ NonDecreasing(op.s[2])
    /\ ret.status = "AssertionError"
    /\ op.rng > 0

(***************************************************************************)
(* Repeated calls under floating-point rounding.  The division w[j] /=     *)
(* wtot and the sums that give wtot round to the nearest floating-point    *)
(* number (ties to even); a significand of MantBits bits stands for the    *)
(* 53 bits of a double.  The binning that follows is kept exact.           *)
(***************************************************************************)
MantBits == 3

RECURSIVE Exponent(_)
\* the e with 2^e <= x < 2^(e+1), x > 0
Exponent(x) ==
    IF QLe(Two, x) THEN Exponent(QDiv(x, Two)) + 1
    ELSE IF QLt(x, One) THEN Exponent(QMul(x, Two)) - 1
    ELSE 0

Pow2(k) == IF k >= 0 THEN QInt(2^k) ELSE Q(1, 2^(0 - k))

RoundPos(x) ==
    LET e == Exponent(x)
        sc == QMul(x, Pow2(MantBits - 1 - e))
        fl == sc[1] \div sc[2]
        rem2 == 2 * (sc[1] - fl * sc[2])
        m == IF rem2 > sc[2] \/ (rem2 = sc[2] /\ fl % 2 = 1) THEN fl + 1 ELSE fl
    IN  QMul(QInt(m), Pow2(e - MantBits + 1))

\* the operand is a value: it is computed once, then rounded
Round(x) ==
    CHOOSE y \in {IF v[2] = 0 \/ v[1] = 0 THEN v
                  ELSE IF v[1] < 0 THEN QNeg(RoundPos(QNeg(v)))
                  ELSE RoundPos(v) : v \in {x}} : TRUE

RECURSIVE RoundedSumTo(_, _)
RoundedSumTo(x, n) == IF n = 0 THEN Zero ELSE Round(QAdd(RoundedSumTo(x, n - 1), x[n]))
RoundedSum(x) == RoundedSumTo(x, Len(x))

RECURSIVE RoundedScaleTo(_, _, _)
RoundedScaleTo(x, c, n) ==
    IF n = 0 THEN <<>> ELSE Append(RoundedScaleTo(x, c, n - 1), Round(QDiv(x[n], c)))

\* wtot += w[j].sum(); w[j] /= wtot, every operation rounded; wtot is the
\* value the two sums leave, computed once
NormalizeTotalRounded(w) ==
    CHOOSE res \in {<<RoundedScaleTo(w[1], wtot, Len(w[1])),
                      RoundedScaleTo(w[2], wtot, Len(w[2]))>> :
                    wtot \in {Round(QAdd(Round(QAdd(Zero, RoundedSum(w[1]))),
                                         RoundedSum(w[2])))}} : TRUE

equiscoresRounded(rr, ss, ww, nbins) ==
    IF ~(NonDecreasing(ss[1]) /\ NonDecreasing(ss[2])) THEN
        Raise("AssertionError", "sorted", ww, FALSE)
    ELSE IF ww = NoWeights THEN Raise("NameError", "weights", ww, FALSE)
    ELSE IF ~AllPositive(ww) THEN Raise("AssertionError", "weights", ww, FALSE)
    ELSE LET w == NormalizeTotalRounded(ww)
         IN  [status |-> "ok", step |-> "return", weights |-> w, merged |-> FALSE,
              bins |-> [j \in 1..2 |->
                  bintwo(nbins, rr[j], ss[j], ss[j], Last(ss[j]), w[j])]]

EquiscoresRounded(nbins) ==
    /\ op.left > 0
    /\ ret' = equiscoresRounded(r, s, weights, nbins)
    /\ weights' = ret'.weights
    /\ op' = Call("equiscores", FALSE, One, nbins, <<>>)
    /\ UNCHANGED <<r, s, rng>>

RoundedWeights == {1, 2}

InitRounded ==
    /\ \E x0 \in NonDecSeqs(2) : s = <<ScoreArray(x0), <<One>>>>
    /\ \E y0 \in [1..2 -> Responses] : r = <<QSeq(y0), <<One>>>>
    /\ \E w0 \in [1..2 -> RoundedWeights], w1 \in [1..1 -> RoundedWeights] :
        weights = <<QSeq(w0), QSeq(w1)>>
    /\ rng = 0
    /\ op = NoCall(2)
    /\ ret = NoResult

NextRounded == \E nbins \in 1..2 : EquiscoresRounded(nbins)

SpecRounded == InitRounded /\ [][NextRounded]_vars

(***************************************************************************)
(* ate under floating-point rounding: every arithmetic operation of the    *)
(* weight normalization, of the loop over the observations and of the      *)
(* final average rounds to a significand of MantBits bits.                 *)
(***************************************************************************)
\* w[j] /= w[j].sum() for both j
NormalizeEachRounded(w) ==
    <<RoundedScaleTo(w[1], RoundedSum(w[1]), Len(w[1])),
      RoundedScaleTo(w[2], RoundedSum(w[2]), Len(w[2]))>>

\* (diff0 + diff1) * w2[j] / 2, or (diff0 + diff1) * w2[j]
ContributionRounded(st, j) ==
    LET kl == LookLeft(st.ispop, j)
        kr == LookRight(st.ispop, j)
        both == Round(QMul(Round(QAdd(Round(Diff(st, j, kl)), Round(Diff(st, j, kr)))),
                           st.w2[j]))
    IN  IF kl # 0 /\ kr # 0 THEN Round(QDiv(both, Two)) ELSE both

RECURSIVE AccumulatedRoundedTo(_, _)
\* wate += ...
AccumulatedRoundedTo(st, n) ==
    IF n = 0 THEN Zero
    ELSE Round(QAdd(AccumulatedRoundedTo(st, n - 1), ContributionRounded(st, n)))

AccumulatedRounded(st) == AccumulatedRoundedTo(st, Len(st.r2))

\* wate as accumulated, without the compensation for np.sum(w2) = 2
WateRoundedWhole(st) == AccumulatedRounded(st)

\* wate / 2
WateRounded(st) == Round(QDiv(AccumulatedRounded(st), Two))

RECURSIVE ateloopRounded(_, _, _, _)
\* nx is the order the shuffle leaves, computed once per iteration
ateloopRounded(st, perms, i, acc) ==
    IF i > Len(perms) THEN acc
    ELSE CHOOSE res \in {ateloopRounded(nx, perms, i + 1,
                              [wates |-> Append(acc.wates, AccumulatedRounded(nx)),
                               ates |-> Append(acc.ates, WateRounded(nx)),
                               orders |-> Append(acc.orders, nx)]) :
                          nx \in {Shuffled(st, perms[i])}} : TRUE

ateRounded(rr, ss, ww, perms) ==
    LET w == IF ww = NoWeights THEN NormalizeEachRounded(<<Ones(ss[1]), Ones(ss[2])>>)
             ELSE NormalizeEachRounded(ww)
    IN  CHOOSE res \in {[status |-> "ok", step |-> "return",
                         weights |-> IF ww = NoWeights THEN ww ELSE w,
                         normalized |-> w, wates |-> acc.wates, orders |-> acc.orders,
                         ates |-> acc.ates,
                         value |-> Round(QDiv(RoundedSum(acc.ates), QInt(Len(acc.ates))))] :
                        acc \in {ateloopRounded(Combined(rr, ss, w), perms, 1,
                                     [wates |-> <<>>, ates |-> <<>>, orders |-> <<>>])}} : TRUE

AteRounded(perms) ==
    /\ op.left > 0
    /\ ret' = ateRounded(r, s, weights, perms)
    /\ weights' = ret'.weights
    /\ rng' = rng + Len(perms)
    /\ op' = Call("ate", FALSE, One, 0, perms)
    /\ UNCHANGED <<r, s>>

\* what the generator yields in a call with num_rand = 1 or 3
RoundedPermSeqs(n) ==
    {<<p>> : p \in Perms(n)} \cup {<<p, Reversal(n), p>> : p \in Perms(n)}

InitAteRounded ==
    /\ \E sh \in AteShapes :
        /\ \E x0 \in AteScores(sh[1]), x1 \in AteScores(sh[2]) :
            s = <<QSeq(x0), QSeq(x1)>>
        /\ \E y0 \in [1..sh[1] -> Responses], y1 \in [1..sh[2] -> Responses] :
            r = <<QSeq(y0), QSeq(y1)>>
        /\ \E w0 \in WeightArrays(sh[1]), w1 \in WeightArrays(sh[2]) :
            /\ ~((\E k \in 1..sh[1] : w0[k] = 2) /\ (\E k \in 1..sh[2] : w1[k] = 2))
            /\ weights = <<QSeq(w0), QSeq(w1)>>
    /\ rng = 0
    /\ op = NoCall(1)
    /\ ret = NoResult

NextAteRounded == \E perms \in RoundedPermSeqs(Size(s)) : AteRounded(perms)

SpecAteRounded == InitAteRounded /\ [][NextAteRounded]_vars

(***************************************************************************)
(* cumulative under floating-point rounding, up to the assertion on the    *)
(* staggered scores: the weight normalization and binvalues round every    *)
(* operation to a significand of MantBits bits.  The steps after the       *)
(* assertion are kept exact.                                               *)
(***************************************************************************)
RECURSIVE binloopRounded(_, _, _, _, _, _, _)
binloopRounded(a, d, e, key, w, k, st) ==
    IF k > Len(d) THEN st
    ELSE IF d[k] = key THEN
        binloopRounded(a, d, e, key, w, k + 1,
            [winbin |-> Round(QAdd(st.winbin, w[key + 1][e[k]])),
             b |-> SetLast(st.b, Round(QAdd(Last(st.b),
                                            Round(QMul(a[e[k]], w[key + 1][e[k]])))))])
    ELSE IF QLt(Zero, st.winbin) THEN
        binloopRounded(a, d, e, key, w, k + 1,
            [winbin |-> Zero,
             b |-> Append(SetLast(st.b, Round(QDiv(Last(st.b), st.winbin))), Zero)])
    ELSE binloopRounded(a, d, e, key, w, k + 1, st)

binvaluesRounded(a, d, e, key, w) ==
    LET st == binloopRounded(a, d, e, key, w, 1, [winbin |-> Zero, b |-> <<Zero>>])
    IN  IF Last(d) = key THEN SetLast(st.b, Round(QDiv(Last(st.b), st.winbin)))
        ELSE DelLast(st.b)

CurveRounded(rr, ss, w, caller, probs, fraction) ==
    IF \E m \in {mergesorted(ss[1], ss[2])} :
           \E t \in {[j \in 1..2 |-> binvaluesRounded(ss[j], m.d, m.e, j - 1, w)]} :
               ~StrictlyIncreasing(Stagger(t, m.d[1])) THEN
        Raise("AssertionError", "stagger", caller, TRUE)
    ELSE Curve(rr, ss, w, caller, probs, fraction)

cumulativeRounded(rr, ss, ww, probs, fraction) ==
    IF ~(StrictlyIncreasing(ss[1]) /\ StrictlyIncreasing(ss[2])) THEN
        Raise("AssertionError", "sorted", ww, FALSE)
    ELSE IF ~Disjoint(ss) THEN Raise("AssertionError", "disjoint", ww, FALSE)
    ELSE IF ww # NoWeights /\ ~AllPositive(ww) THEN
        Raise("AssertionError", "weights", ww, FALSE)
    ELSE CHOOSE res \in {CurveRounded(rr, ss, w, IF ww = NoWeights THEN ww ELSE w,
                                      probs, fraction) :
                         w \in {NormalizeTotalRounded(
                                    IF ww = NoWeights THEN <<Ones(ss[1]), Ones(ss[2])>>
                                    ELSE ww)}} : TRUE

CumulativeRounded(probs, fraction) ==
    /\ op.left > 0
    /\ ret' = cumulativeRounded(r, s, weights, probs, fraction)
    /\ weights' = ret'.weights
    /\ op' = Call("cumulative", probs, fraction, 0, <<>>)
    /\ UNCHANGED <<r, s, rng>>

\* scores that a significand of MantBits bits holds exactly: the numbers
\* from 1 up to 2, 2 excluded
RoundedScoreVals == (2^(MantBits - 1))..(2^MantBits - 1)
RoundedScoreArray(x) == [k \in 1..Len(x) |-> Q(x[k], 2^(MantBits - 1))]
RoundedIncSeqs(n) ==
    {x \in [1..n -> RoundedScoreVals] : \A k \in 1..(n - 1) : x[k] < x[k + 1]}

RoundedObs == 3

InitCumulativeRounded ==
    /\ \E n0 \in 1..(RoundedObs - 1) : \E n1 \in 1..(RoundedObs - n0) :
        /\ \E x0 \in RoundedIncSeqs(n0), x1 \in RoundedIncSeqs(n1) :
            /\ \A i \in 1..n0, j \in 1..n1 : x0[i] # x1[j]
            /\ s = <<RoundedScoreArray(x0), RoundedScoreArray(x1)>>
        /\ \E y0 \in [1..n0 -> Responses], y1 \in [1..n1 -> Responses] :
            r = <<QSeq(y0), QSeq(y1)>>
        /\ \E w0 \in WeightArrays(n0), w1 \in WeightArrays(n1) :
            weights = <<QSeq(w0), QSeq(w1)>>
    /\ rng = 0
    /\ op = NoCall(1)
    /\ ret = NoResult

NextCumulativeRounded == \E probs \in BOOLEAN : CumulativeRounded(probs, One)

SpecCumulativeRounded == InitCumulativeRounded /\ [][NextCumulativeRounded]_vars

(***************************************************************************)
(* C19: two successive calls of equiscores with the same r, s and weights  *)
(* objects and the same nbins give identical bin weights, average          *)
(* responses and average scores for both subpopulations.                   *)
(***************************************************************************)
SecondEquiscores ==
    /\ op.name = "equiscores"
    /\ op.prev.name = "equiscores"
    /\ op.prev.nbins = op.nbins
    /\ op.prev.ret.status = "ok"

EquiscoresIdempotent == SecondEquiscores => ret.status = "ok" /\ ret.bins = op.prev.ret.bins

(***************************************************************************)
(* C20: for either subpopulation and every nbins >= 1, bintwo returns      *)
(* exactly nbins total weights, nbins average responses and nbins average  *)
(* scores, whether or not every bin received an observation.               *)
(***************************************************************************)
EquiscoreBinCount ==
    Returned("equiscores") =>
        \A j \in 1..2 :
            /\ DOMAIN ret.bins[j].wbin = 1..op.nbins
            /\ DOMAIN ret.bins[j].bina = 1..op.nbins
            /\ DOMAIN ret.bins[j].binb = 1..op.nbins

\* the last of at least three bins received nothing, an earlier one did
EquiscoreBinCountWitness ==
    /\ Returned("equiscores")
    /\ op.nbins >= 3
    /\ ret.bins[1].wbin[op.nbins] = Zero
    /\ \E i \in 1..(op.nbins - 1) : ret.bins[1].wbin[i] # Zero

(***************************************************************************)
(* Claims about the estimate of each iteration of ate.                     *)
(***************************************************************************)
\* the arrays an iteration starts from
Before(i) ==
    IF i = 1 THEN Combined(op.r, op.s, ret.normalized) ELSE ret.orders[i - 1]

\* the place a stable sort by score gives to position k of u
Rank(u, k) ==
    Cardinality({l \in 1..Len(u.s2) :
        QLt(u.s2[l], u.s2[k]) \/ (u.s2[l] = u.s2[k] /\ l < k)}) + 1

\* the order of iteration i is the permutation perms[i] of the arrays it
\* starts from, followed by a stable sort by score
OrderFixed(i) ==
    LET u == ReorderAll(Before(i), op.perms[i])
        v == ret.orders[i]
    IN  /\ Len(v.s2) = Len(u.s2)
        /\ \A k \in 1..Len(u.s2) :
            /\ v.s2[Rank(u, k)] = u.s2[k]
            /\ v.r2[Rank(u, k)] = u.r2[k]
            /\ v.w2[Rank(u, k)] = u.w2[k]
            /\ v.ispop[Rank(u, k)] = u.ispop[k]

\* response of subpopulation 0 minus response of subpopulation 1, for the
\* observation at j and the one of the other subpopulation at k
Signed(st, j, k) ==
    IF st.ispop[j] = 0 THEN QSub(st.r2[j], st.r2[k]) ELSE QSub(st.r2[k], st.r2[j])

NearestDifference(st, j) ==
    LET lefts == {k \in 1..(j - 1) : st.ispop[k] # st.ispop[j]}
        rights == {k \in (j + 1)..Len(st.ispop) : st.ispop[k] # st.ispop[j]}
        l == CHOOSE k \in lefts : \A i \in lefts : i <= k
        g == CHOOSE k \in rights : \A i \in rights : k <= i
    IN  IF lefts # {} /\ rights # {} THEN QDiv(QAdd(Signed(st, j, l), Signed(st, j, g)), Two)
        ELSE IF lefts # {} THEN Signed(st, j, l)
        ELSE IF rights # {} THEN Signed(st, j, g)
        ELSE Zero

IterationEstimate(st) ==
    QDiv(Sum([j \in 1..Len(st.r2) |-> QMul(st.w2[j], NearestDifference(st, j))]), Two)

\* C21: ate weights each observation by its weight divided by the total of its
\* own subpopulation; each iteration steps through the arrays as permuted and
\* then stably sorted by score, and its estimate is half the weighted sum of
\* the signed (subpopulation 0 minus subpopulation 1) differences to the
\* nearest observations of the other subpopulation: their mean when there is
\* one on each side, the single one when there is one side only, 0 when there
\* is none; ate returns the arithmetic mean of the estimates.
AteIterationValue ==
    Returned("ate") =>
        /\ \A j \in 1..2 : \A k \in 1..Len(op.weights[j]) :
            ret.normalized[j][k] = QDiv(op.weights[j][k], Sum(op.weights[j]))
        /\ Len(ret.ates) = Len(op.perms)
        /\ \A i \in 1..Len(op.perms) :
            /\ OrderFixed(i)
            /\ ret.ates[i] = IterationEstimate(ret.orders[i])
        /\ ret.value = QDiv(Sum(ret.ates), QInt(Len(op.perms)))

\* two iterations; in the first an observation has a neighbour of the other
\* subpopulation on each side with different differences, and another has a
\* neighbour on one side only
AteIterationValueWitness ==
    /\ Returned("ate")
    /\ Len(op.perms) = 2
    /\ op.perms[1] # Identity(Size(op.s))
    /\ LET st == ret.orders[1]
       IN  /\ \E j \in 2..(Len(st.r2) - 1) :
               /\ st.ispop[j - 1] # st.ispop[j] /\ st.ispop[j + 1] # st.ispop[j]
               /\ Signed(st, j, j - 1) # Signed(st, j, j + 1)
           /\ st.ispop[1] # st.ispop[2]
           /\ Signed(st, 1, 2) # Zero

\* the result of ate when the generator yields the identity num_rand times
Unshuffled(num_rand) ==
    ateRounded(op.r, op.s, op.weights, [i \in 1..num_rand |-> Identity(Size(op.s))])

\* C26 as stated: when the scores of all observations are pairwise distinct,
\* ate returns the same value whatever permutations the generator yields and
\* whatever num_rand >= 1 is.
AtePermutationInvariance ==
    Returned("ate") /\ DistinctScores(op.s) => ret.value = Unshuffled(1).value

\* C26, amended: when the scores of all observations are pairwise distinct,
\* every iteration of ate gives the same estimate whatever permutations the
\* generator yields, and ate returns the same value for every sequence of
\* num_rand permutations, num_rand being the same.
AtePermutationInvarianceFixed ==
    Returned("ate") /\ DistinctScores(op.s) =>
        /\ \A i \in 1..Len(op.perms) : ret.ates[i] = Unshuffled(1).ates[1]
        /\ ret.value = Unshuffled(Len(op.perms)).value

\* distinct scores, unequal weights, three iterations that all shuffle, and a
\* value that is not the estimate of the iterations
AtePermutationInvarianceWitness ==
    /\ Returned("ate")
    /\ DistinctScores(op.s)
    /\ Size(op.s) = 3
    /\ Len(op.perms) = 3
    /\ op.perms[1] # Identity(3) /\ op.perms[2] = Reversal(3)
    /\ \E j \in 1..2 : Sum(op.weights[j]) = QInt(3)
    /\ ret.value # ret.ates[1]

\* every response of subpopulation j (1 or 2) of the call is c
ConstantResponse(j, c) == \A k \in 1..Len(op.r[j]) : op.r[j][k] = c

\* half the distance between 1 and the next floating-point number
UnitRoundoff == Q(1, 2^MantBits)

Observations == {o \in (1..2) \X (1..MaxObs) : o[2] <= Len(op.s[o[1]])}

ScoreOf(o) == op.s[o[1]][o[2]]

\* the observation at place i (from 1) of the merged sequence
Place(o) == Cardinality({p \in Observations : QLt(ScoreOf(p), ScoreOf(o))}) + 1
AtPlace(i) == CHOOSE o \in Observations : Place(o) = i

RECURSIVE MergedTo(_)
MergedTo(n) == IF n = 0 THEN <<>> ELSE Append(MergedTo(n - 1), AtPlace(n))

\* the observations in the order of their scores
Merged == MergedTo(Cardinality(Observations))

RECURSIVE RunsTo(_, _)
\* the maximal run of one origin (from 1) that each place of order belongs to
RunsTo(order, i) ==
    IF i = 0 THEN <<>>
    ELSE LET runs == RunsTo(order, i - 1)
         IN  Append(runs, IF i = 1 THEN 1
                          ELSE IF order[i][1] = order[i - 1][1] THEN runs[i - 1]
                          ELSE runs[i - 1] + 1)

\* the weights the call normalized
WeightOf(o) == ret.weights[o[1]][o[2]]
WeightedResponse(o) == QMul(WeightOf(o), op.r[o[1]][o[2]])

\* the places of run q
RunPlaces(runs, q) == {i \in 1..Len(runs) : runs[i] = q}

RECURSIVE RunResponsesTo(_, _, _)
\* the weighted mean response of each run
RunResponsesTo(order, runs, q) ==
    IF q = 0 THEN <<>>
    ELSE Append(RunResponsesTo(order, runs, q - 1),
                QDiv(SumOver([i \in 1..Len(order) |-> WeightedResponse(order[i])], RunPlaces(runs, q)),
                     SumOver([i \in 1..Len(order) |-> WeightOf(order[i])], RunPlaces(runs, q))))

RECURSIVE RunWeightsTo(_, _, _)
\* the arithmetic mean of the weights of each run
RunWeightsTo(order, runs, q) ==
    IF q = 0 THEN <<>>
    ELSE Append(RunWeightsTo(order, runs, q - 1),
                QDiv(SumOver([i \in 1..Len(order) |-> WeightOf(order[i])], RunPlaces(runs, q)),
                     QInt(Cardinality(RunPlaces(runs, q)))))

RECURSIVE RunOriginsTo(_, _, _)
\* the subpopulation (1 or 2) of each run
RunOriginsTo(order, runs, q) ==
    IF q = 0 THEN <<>>
    ELSE Append(RunOriginsTo(order, runs, q - 1),
                order[CHOOSE i \in RunPlaces(runs, q) : TRUE][1])

\* entry k (from 1) of the differences, centred on run k + 1
MidpointDifference(resp, origin, k) ==
    LET centre == resp[k + 1]
        sides == QDiv(QAdd(resp[k], resp[k + 2]), Two)
    IN  IF origin[k + 1] = 1 THEN QSub(centre, sides) ELSE QSub(sides, centre)

MidpointWeight(m, k) ==
    QDiv(QAdd(QAdd(m[k], QMul(Two, m[k + 1])), m[k + 2]), Four)

RECURSIVE MidpointWeightsTo(_, _)
MidpointWeightsTo(m, k) ==
    IF k <= 0 THEN <<>> ELSE Append(MidpointWeightsTo(m, k - 1), MidpointWeight(m, k))

NumRuns == LET runs == RunsTo(Merged, Cardinality(Observations)) IN runs[Len(runs)]

\* C22: with the merged sequence split into maximal runs of one origin, m of
\* them, a call of cumulative with fraction = 1 that returns has formed m - 2
\* differences; entry k is centred on the run after run k: it is the value on
\* the side of subpopulation 0 minus the value on the side of subpopulation
\* 1, the centre run giving its weighted mean response and the other side the
\* plain average of the weighted mean responses of the two runs around it;
\* its weight is (m_k + 2 m_(k+1) + m_(k+2)) / 4, m_i being the arithmetic
\* mean of the normalized weights of run i, divided by the total of these
\* weights, so that the abscissae end at 1.
MidpointDifferences ==
    Returned("cumulative") /\ op.fraction = One =>
        LET order == Merged
            runs == RunsTo(order, Len(order))
            m == runs[Len(runs)]
            resp == RunResponsesTo(order, runs, m)
            origin == RunOriginsTo(order, runs, m)
            wts == MidpointWeightsTo(RunWeightsTo(order, runs, m), m - 2)
            total == Sum(wts)
        IN  /\ Len(ret.a) = m - 2
            /\ Len(ret.abscissae) = m - 2
            /\ \A k \in 1..(m - 2) :
                /\ ret.a[k] = MidpointDifference(resp, origin, k)
                /\ QSub(ret.abscissae[k], IF k = 1 THEN Zero ELSE ret.abscissae[k - 1])
                       = QDiv(wts[k], total)
            /\ ret.abscissae[m - 2] = One

\* four runs, so that one difference is centred on each subpopulation, with
\* unequal weights and differences that are not zero
MidpointDifferencesWitness ==
    /\ Returned("cumulative")
    /\ op.fraction = One
    /\ NumRuns = 4
    /\ \E o \in Observations : op.weights[o[1]][o[2]] = Two
    /\ ret.a[1] # Zero /\ ret.a[2] # Zero /\ ret.a[1] # ret.a[2]
    /\ ret.abscissae[1] # Q(1, 2)

(***************************************************************************)
(* Claims about the helpers of cumulative.  Indices count from 1 here, so  *)
(* that e runs through 1..size where the arrays of the code hold 0..size-1.*)
(***************************************************************************)
\* C23: for strictly increasing arrays a and b with no value in common,
\* mergesorted returns c, d and e of length |a| + |b|; c is strictly
\* increasing and holds exactly the values of a and b; d[k] is 0 when c[k]
\* came from a and 1 when it came from b; c[k] is the entry e[k] of the
\* array it came from; and for each origin the indices e[k] run through all
\* the positions of that array in increasing order, each once.
MergesortedCorrect ==
    op.name = "cumulative" /\ ret.merged =>
        LET a == op.s[1]
            b == op.s[2]
            m == mergesorted(a, b)
            n == Len(a) + Len(b)
        IN  /\ Len(m.c) = n /\ Len(m.d) = n /\ Len(m.e) = n
            /\ StrictlyIncreasing(m.c)
            /\ Values(m.c) = Values(a) \cup Values(b)
            /\ Cardinality({k \in 1..n : m.d[k] = 0}) = Len(a)
            /\ Cardinality({k \in 1..n : m.d[k] = 1}) = Len(b)
            /\ \A k \in 1..n :
                /\ m.d[k] = 0 => m.c[k] = a[m.e[k]]
                /\ m.d[k] = 1 => m.c[k] = b[m.e[k]]
                /\ m.e[k] = Cardinality({l \in 1..k : m.d[l] = m.d[k]})

\* the merged sequence starts with b and changes origin at least three times
MergesortedCorrectWitness ==
    /\ op.name = "cumulative" /\ ret.merged
    /\ LET m == mergesorted(op.s[1], op.s[2])
       IN  /\ m.d[1] = 1
           /\ Cardinality({k \in 2..Len(m.d) : m.d[k] # m.d[k - 1]}) >= 3

\* C28: for every valid input to cumulative (strictly increasing scores, no
\* score in both subpopulations, positive weights) the staggered weighted
\* mean scores of the runs are strictly increasing, so the assertion that
\* follows the staggering never fails.
StaggerAssertion ==
    op.name = "cumulative" /\ StrictlyIncreasing(op.s[1]) /\ StrictlyIncreasing(op.s[2])
        /\ Disjoint(op.s) /\ AllPositive(op.weights) =>
            ~(ret.status = "AssertionError" /\ ret.step = "stagger")

(***************************************************************************)
(* Claims about binbounds.  Boundaries count the observations from 0, as   *)
(* in the code: a bin from lo to hi holds w[lo], ..., w[hi - 1].           *)
(***************************************************************************)
\* (sum of squared weights) / (sum of weights)^2 over w[lo], ..., w[hi - 1]
Ratio(w, lo, hi) ==
    QDiv(Sum([k \in 1..(hi - lo) |-> Square(w[lo + k])]), Square(Sum(Slice(w, lo, hi))))

\* the threshold of the call of binbounds for subpopulation j (1 or 2)
ThresholdOf(j) ==
    Threshold(Subsample(ret.weights[j], op.perms[j], Len(ret.weights[j]) \div op.nbins))

\* the boundaries binbounds returned for subpopulation j, when it returned
Bounded(j) ==
    /\ op.name = "equierrs"
    /\ "bounds" \in DOMAIN ret
    /\ Len(ret.bounds) >= j
    /\ ret.bounds[j].status = "ok"
    /\ op.nbins <= Len(ret.weights[j])

EquierrGrowthRuleBelow ==
    \A j \in 1..2 : Bounded(j) =>
        LET w == ret.weights[j]
            inbin == ret.bounds[j].inbin
            t == ThresholdOf(j)
        IN  \A i \in 1..(Len(inbin) - 2) :
                /\ inbin[i + 1] = Len(w) - 1 \/ QLe(Ratio(w, inbin[i], inbin[i + 1]), t)
                /\ \A k \in (inbin[i] + 1)..(inbin[i + 1] - 1) : QLt(t, Ratio(w, inbin[i], k))

Grown(j) == growbins(ret.weights[j], ThresholdOf(j), 0, <<>>)

\* binbounds returned for subpopulation j
Closed(j) ==
    /\ op.name = "equierrs"
    /\ "bounds" \in DOMAIN ret
    /\ Len(ret.bounds) >= j
    /\ ret.bounds[j].status = "ok"

\* C25: after the growth, binbounds merges the final bin into the bin before
\* it exactly when the final bin holds fewer than half as many observations
\* as that bin; it merges at most once and otherwise keeps the final bin; the
\* bin count equierrs returns for a subpopulation is the number of its
\* boundaries minus one.
EquierrTrailingMerge ==
    /\ \A j \in 1..2 : Closed(j) =>
        LET g == Grown(j)
            n == Len(ret.weights[j])
            final == n - g[Len(g)]
            before == g[Len(g)] - g[Len(g) - 1]
            inbin == ret.bounds[j].inbin
        IN  IF 2 * final < before
            THEN inbin = Append(DelLast(g), n)
            ELSE inbin = Append(g, n)
    /\ Returned("equierrs") =>
        \A j \in 1..2 : ret.count[j] = Len(ret.bounds[j].inbin) - 1

\* a call that returns after the final bin of subpopulation 0, of two
\* observations, was merged into a bin of five
EquierrTrailingMergeWitness ==
    /\ Returned("equierrs")
    /\ LET g == Grown(1)
       IN  /\ Len(ret.bounds[1].inbin) = Len(g)
           /\ Len(ret.weights[1]) - g[Len(g)] = 2
           /\ g[Len(g)] - g[Len(g) - 1] = 5
           /\ ret.count[1] = Len(g) - 1

\* C27: for subpopulations of at least two observations with positive
\* weights and any nbins >= 1, nbins = 1 and nbins > len(w) included,
\* binbounds completes without an IndexError and returns at least two
\* boundaries, that is at least one bin.
BinboundsCompletes ==
    op.name = "equierrs" /\ NonDecreasing(op.s[1]) /\ NonDecreasing(op.s[2])
        /\ op.weights # NoWeights /\ AllPositive(op.weights)
        /\ Len(op.weights[1]) >= 2 /\ Len(op.weights[2]) >= 2 /\ op.nbins >= 1 =>
            /\ ret.status = "ok"
            /\ \A j \in 1..2 : Len(ret.bounds[j].inbin) >= 2

\* binbounds was called for subpopulation j, whose n weights are all equal,
\* with an nbins that divides n and leaves n / nbins >= 2
EqualWeightCall(j) ==
    /\ op.name = "equierrs"
    /\ "bounds" \in DOMAIN ret
    /\ Len(ret.bounds) >= j
    /\ Cardinality(Values(op.weights[j])) = 1
    /\ Len(op.weights[j]) % op.nbins = 0
    /\ Len(op.weights[j]) \div op.nbins >= 2

\* nbins bins of n / nbins observations each
EqualBins(j) ==
    /\ ret.bounds[j].status = "ok"
    /\ ret.bounds[j].inbin =
           [i \in 1..(op.nbins + 1) |-> (i - 1) * (Len(op.weights[j]) \div op.nbins)]

\* C30: when all the weights of a subpopulation of n observations are equal,
\* nbins divides n and n / nbins >= 2, binbounds returns exactly nbins bins of
\* n / nbins observations each, whatever permutation the generator yields.
EqualWeightBins == \A j \in 1..2 : EqualWeightCall(j) => EqualBins(j)

\* the statement of C30 for nbins >= 2
EqualWeightBinsSeveral == \A j \in 1..2 : EqualWeightCall(j) /\ op.nbins >= 2 => EqualBins(j)

====
